---- MODULE Spec2Model ----
(***************************************************************************)
(* The authenticating embedding gateway of scailo/create-enclave: the two  *)
(* reference servers (Go: server/golang main.go, Node: server/node/        *)
(* server.ts).  One behaviour of the model is one run of one server; the   *)
(* variable `flavor` says which, `production` is the PRODUCTION setting.   *)
(***************************************************************************)
EXTENDS Integers, Sequences, FiniteSets, TLC

\* ------------------------------------------------------------------ bounds
\* Upstream tokens have lengths 1..MaxTokLen (token n is the byte n, n times).
MaxTokLen == 2
\* The wall clock (seconds) takes the values 1..MaxTime.
MaxTime == 2
\* In-flight Node login calls are counted up to MaxInflight (saturating).
MaxInflight == 2
\* The subscriber is fed at most MaxMsgs pub/sub messages.
MaxMsgs == 4
\* index.html has at most MaxTplLen elements.
MaxTplLen == 2
\* Within one second the clock takes the sub-second values 0..MaxFrac.
MaxFrac == 1
\* Reads of index.html are counted up to MaxReads (saturating).
MaxReads == 2

\* ------------------------------------------------------- program constants
\* expiresIn = 3600 / Date.now() + 3600 * 1000: the development cookie's life.
DevExpiry == 3600
\* securecookie.New([]byte(GlobalConfig.CookieSignatureSecret), nil) and
\* server.register(cookie, {secret: COOKIE_SIGNATURE_SECRET}): the key, as an id.
CookieSignatureSecret == 1

Flavors == {"go", "node"}

\* The required settings, by their environment variables.
Settings == {"ENCLAVE_NAME", "SCAILO_API", "PORT", "USERNAME", "PASSWORD",
             "REDIS_URL", "WORKFLOW_EVENTS_CHANNEL", "COOKIE_SIGNATURE_SECRET"}
\* A validation that only looks at the port.
ExitCodePortOnly(empty) == IF "PORT" \in empty THEN 1 ELSE 0
\* The validation of loadConfig / the top of server.ts: exit status 1 when any
\* required setting is "" (the port: 0) after load, 0 (no exit) otherwise.
ExitCode(empty) == IF empty # {} THEN 1 ELSE 0

\* What the environment variable PORT may hold: nothing, "0", text that is no
\* number, a negative number, a port number.
PortEnv == {"unset", "zero", "notNumber", "negative", "positive"}
\* A parsed port: a number, or NaN.
Port(n) == [nan |-> FALSE, n |-> n]
NaNPort == [nan |-> TRUE, n |-> 0]
\* if portStr != "" { p, err := strconv.Atoi(portStr); if err == nil {
\* GlobalConfig.Port = p } }: the port stays 0 unless PORT is a number.
GoParsePort(env) ==
    IF env = "positive" THEN Port(1) ELSE IF env = "negative" THEN Port(-1) ELSE Port(0)
\* parseInt(process.env.PORT || "0"): NaN for text that is no number.
NodeParsePort(env) ==
    IF env = "positive" THEN Port(1) ELSE IF env = "negative" THEN Port(-1)
    ELSE IF env = "notNumber" THEN NaNPort ELSE Port(0)
ParsePort(f, env) == IF f = "go" THEN GoParsePort(env) ELSE NodeParsePort(env)
\* GlobalConfig.Port == 0 / PORT == 0: NaN is not equal to 0.
PortIsZero(p) == ~p.nan /\ p.n = 0
\* net.Listen / server.listen take a port number only: a negative number is
\* an error, and so is NaN (ERR_SOCKET_BAD_PORT).
PortListens(p) == ~p.nan /\ p.n > 0

Token(n) == [i \in 1..n |-> n]
Tokens == {Token(n) : n \in 1..MaxTokLen}
Times == 1..MaxTime
\* expiresAt values the upstream may answer: before, at and after any clock value.
ExpiryTimes == 1..(MaxTime + 1)

\* --------------------------------------------------------- cookie encoding
\* A cookie value on the wire is a sequence of symbols: token bytes
\* (1..MaxTokLen), separators, a timestamp symbol and MAC symbols.  The MAC is
\* ideal: Tag is injective in (key, message), and nothing else produces it.
Sym == [dot |-> 46, bar |-> 124, ts |-> 200, name |-> 300, junk |-> 0]
TsSym(t) == Sym.ts + t
MacSym(k, b) == 1000 * k + b
Tag(k, m) == <<MacSym(k, Len(m))>> \o [i \in 1..Len(m) |-> MacSym(k, m[i])]

\* securecookie keeps a cookie for 30 days from its timestamp, and at most
\* 4096 symbols long (the defaults of securecookie.New).
SecureCookieMaxAge == 86400 * 30
SecureCookieMaxLength == 4096

IndexesOf(c, s) == {i \in 1..Len(c) : c[i] = s}
FirstIndexOf(c, s) == IF IndexesOf(c, s) = {} THEN 0
                      ELSE CHOOSE i \in IndexesOf(c, s) : \A j \in IndexesOf(c, s) : i <= j
LastIndexOf(c, s) == IF IndexesOf(c, s) = {} THEN 0
                     ELSE CHOOSE i \in IndexesOf(c, s) : \A j \in IndexesOf(c, s) : i >= j

\* cookieCoder.Encode(cookieAuthTokenName, value) at time t with key k:
\* "date|value|mac", mac over "name|date|value".
GoEncode(k, t, v) ==
    LET body == <<TsSym(t), Sym.bar>> \o v
        out  == body \o <<Sym.bar>> \o Tag(k, <<Sym.name, Sym.bar>> \o body)
    IN  [ok |-> Len(out) <= SecureCookieMaxLength, value |-> out]

\* cookieCoder.Decode(cookieAuthTokenName, val, &authToken) at time t with key k.
\* On any failure dst keeps its zero value "" (AuthMiddleware drops the error).
GoDecode(k, t, c) ==
    LET i1   == FirstIndexOf(c, Sym.bar)
        rest == SubSeq(c, i1 + 1, Len(c))
        j    == FirstIndexOf(rest, Sym.bar)
        i2   == i1 + j
        date == SubSeq(c, 1, i1 - 1)
        val  == SubSeq(c, i1 + 1, i2 - 1)
        mac  == SubSeq(c, i2 + 1, Len(c))
        fail == [ok |-> FALSE, value |-> <<>>]
    IN  IF Len(c) > SecureCookieMaxLength \/ i1 = 0 \/ j = 0 THEN fail
        ELSE IF mac # Tag(k, <<Sym.name, Sym.bar>> \o SubSeq(c, 1, i2 - 1)) THEN fail
        ELSE IF Len(date) # 1 \/ date[1] < Sym.ts \/ date[1] >= Sym.name THEN fail
        ELSE IF date[1] - Sym.ts < t - SecureCookieMaxAge THEN fail
        ELSE [ok |-> TRUE, value |-> val]

\* @fastify/cookie sign: value + "." + hmac(value, secret).
NodeSign(k, v) == v \o <<Sym.dot>> \o Tag(k, v)

\* request.unsignCookie(c): split at the last ".", compare the MAC; an invalid
\* cookie unsigns to {valid: false, value: null}.
NodeUnsign(k, c) ==
    LET idx    == LastIndexOf(c, Sym.dot)
        value  == IF idx = 0 THEN SubSeq(c, 1, Len(c) - 1) ELSE SubSeq(c, 1, idx - 1)
        actual == IF idx = 0 THEN c ELSE SubSeq(c, idx + 1, Len(c))
    IN  IF actual = Tag(k, value) THEN [ok |-> TRUE, value |-> value]
        ELSE [ok |-> FALSE, value |-> <<>>]

\* ---------------------------------------------------------- page rendering
\* index.html as a sequence of elements: the three tags replaceBundleCaches
\* looks for (the script preload, the script and the stylesheet of the
\* bundle, with this enclave's prefix) and any other content.
Targets == {"preload", "script", "stylesheet"}
Elements == Targets \cup {"text"}
Templates == UNION {[1..n -> Elements] : n \in 0..MaxTplLen}
\* The file on disk: a template, or a file that cannot be read.
File(tpl) == [exists |-> TRUE, content |-> tpl]
MissingFile == [exists |-> FALSE, content |-> <<>>]
Files == {File(tpl) : tpl \in Templates} \cup {MissingFile}

NoVersion == [sec |-> 0, frac |-> 0]
\* time.Now().Format("20060102150405"): the time to the second.
GoVersion(t) == [sec |-> t.sec, frac |-> 0]
\* new Date().toISOString(): the time to the millisecond.
NodeVersion(t) == t

\* replaceBundleCaches (Go): strings.ReplaceAll appends ?v=<version> to every
\* occurrence of each of the three tags; a tag that does not occur is skipped.
GoReplaceBundleCaches(tpl, t) ==
    [i \in 1..Len(tpl) |->
        [el |-> tpl[i],
         v  |-> IF tpl[i] \in Targets THEN GoVersion(t) ELSE NoVersion]]

\* replaceBundleCaches (Node): String.prototype.replace with a string pattern
\* rewrites the first occurrence of each tag only.
NodeReplaceBundleCaches(tpl, t) ==
    [i \in 1..Len(tpl) |->
        [el |-> tpl[i],
         v  |-> IF tpl[i] \in Targets /\ (\A j \in 1..(i - 1) : tpl[j] # tpl[i])
                THEN NodeVersion(t) ELSE NoVersion]]

ReplaceBundleCaches(f, tpl, t) ==
    IF f = "go" THEN GoReplaceBundleCaches(tpl, t) ELSE NodeReplaceBundleCaches(tpl, t)

\* ------------------------------------------------------------------- state
VARIABLES
    flavor,        \* which reference server this run is
    production,    \* production (PRODUCTION == "true")
    missing,       \* the required settings that are empty (port: zero) after load
    exitCode,      \* the status the process exited with, 0 while it has not
    port,          \* GlobalConfig.Port / PORT as parsed from the environment
    phase,         \* "load": before validation; "boot": main has not yet started
                   \* the login; "serving"; "exited": os.Exit / process.exit
    sub,           \* the event subscriber: pc, the messages fed, events dispatched
    indexFile,     \* index.html on disk
    indexPage,     \* indexPage: the cached template ("" until read, in Go)
    frac,          \* the sub-second part of the wall clock
    view,          \* the last reply of a page route or of an unrouted path
    loaded,        \* history: how many reads of index.html returned content
                   \* (counted up to MaxReads)
    alive,         \* FALSE once the process has died (panic, uncaught rejection)
    now,           \* the wall clock, in seconds
    AuthToken,     \* Go: AuthToken, a string header (data, len); Node: authToken
    ScailoAPICtx,  \* Go: ScailoAPICtx, an interface value (typ, md)
    mu,            \* Go: mu sync.RWMutex
    goPc,          \* Go: where the login goroutine is
    goWord,        \* Go: the word of a two-word store already written
    loginResp,     \* Go: loginResp.AuthToken of the attempt in progress
    tickPending,   \* Go: a tick waits in ticker.C (capacity 1)
    nodeTimers,    \* Node: pending setTimeout callbacks of loginToAPI
    nodeRpc,       \* Node: login calls awaiting their response
    nodeOlder,     \* Node: how many of them were sent before the call whose
                   \* token is stored
    pending,       \* the ingress request awaiting VerifyEnclaveIngress
    last,          \* the last completed HTTP exchange, as the client saw it
    committed,     \* history: the token of the last completed store
    lastGranted,   \* history: the token of the last login call answered with one
    attemptBit,    \* history: flips whenever a login attempt is started
    firstDone      \* history: the first login attempt has been answered

vars == <<flavor, production, missing, exitCode, port, phase, sub, indexFile, indexPage,
          frac, view, loaded, alive, now,
          AuthToken, ScailoAPICtx, mu,
          goPc, goWord, loginResp, tickPending, nodeTimers, nodeRpc, nodeOlder, pending,
          last, committed, lastGranted, attemptBit, firstDone>>

goVars   == <<AuthToken, ScailoAPICtx, mu, goPc, goWord, loginResp, tickPending>>
nodeVars == <<nodeTimers, nodeRpc, nodeOlder>>
hist     == <<committed, lastGranted, attemptBit, firstDone>>
config   == <<flavor, production>>
boot     == <<missing, exitCode, port>>
page     == <<indexFile, indexPage, frac, view, loaded>>

\* A Go string is two words; its value is len bytes read from data.
MkStr(s) == [data |-> s, len |-> Len(s)]
\* Reading past the backing array yields whatever lies behind it.
StrBytes(h) == [i \in 1..h.len |-> IF i <= Len(h.data) THEN h.data[i] ELSE Sym.junk]
\* A nil data pointer with a positive length faults on the first byte read.
StrNilFault(h) == h.len > 0 /\ h.data = <<>>

NilCtx == [typ |-> "nil", md |-> <<>>]
\* metadata.NewOutgoingContext(ctx, metadata.Pairs("auth_token", tok))
NewOutgoingContext(tok) == [typ |-> "valueCtx", md |-> tok]
\* A nil interface, or a half-written one, panics when grpc calls a method on it.
CtxUsable(c) == c.typ = "valueCtx" /\ c.md # <<>>

NoCookie == [value |-> <<>>, hasMaxAge |-> FALSE, maxAge |-> 0,
             hasExpires |-> FALSE, expires |-> 0, path |-> "", httpOnly |-> FALSE]
NoFacts == [readShared |-> FALSE, readLocked |-> FALSE, refreshing |-> FALSE,
            svcSeen |-> <<>>, svcOld |-> <<>>, svcNew |-> <<>>]
NoReq == [active |-> FALSE, token |-> <<>>, auth |-> <<>>, facts |-> NoFacts]
NoResp == [route |-> "none", input |-> "none", status |-> 0, location |-> "none",
           setCookie |-> FALSE, cookie |-> NoCookie, handlerRan |-> FALSE,
           calls |-> <<>>, at |-> 0,
           readShared |-> FALSE, readLocked |-> FALSE, refreshing |-> FALSE,
           svcSeen |-> <<>>, svcOld |-> <<>>, svcNew |-> <<>>,
           upSession |-> <<>>, upExpires |-> 0,
           tokOk |-> FALSE, tok |-> <<>>,
           upErr |-> FALSE, body |-> "none", issued |-> <<>>]

\* The subscriber before it is started.
SubOff == [pc |-> "off", fed |-> <<>>, dispatched |-> 0, nested |-> "none"]

\* No page reply yet, and nothing read from index.html yet.
NoView == [path |-> "none", status |-> 0, location |-> "none", read |-> FALSE,
           tpl |-> <<>>, t |-> NoVersion, html |-> <<>>]
NotLoaded == 0
\* The index.html the scaffold generates: the three tags and other content.
ScaffoldTemplate == <<"preload", "stylesheet", "text", "script">>

\* The state after construction, for the settings, the index.html files and
\* the values of PORT given.
Start(settings, files, ports) ==
    /\ flavor \in Flavors
    /\ production \in BOOLEAN
    /\ missing \in settings
    /\ port \in {ParsePort(flavor, env) : env \in ports}
    /\ ("PORT" \in missing) <=> PortIsZero(port)
    /\ indexFile \in files
    /\ indexPage = <<>>
    /\ frac = 0
    /\ view = NoView
    /\ loaded = NotLoaded
    /\ exitCode = 0
    /\ phase = "load"
    /\ sub = SubOff
    /\ alive = TRUE
    /\ now = 1
    /\ AuthToken = MkStr(<<>>)
    /\ ScailoAPICtx = NilCtx
    /\ mu = [writer |-> FALSE, readers |-> 0]
    /\ goPc = "none"
    /\ goWord = "none"
    /\ loginResp = <<>>
    /\ tickPending = FALSE
    /\ nodeTimers = 0
    /\ nodeRpc = 0
    /\ nodeOlder = 0
    /\ pending = NoReq
    /\ last = NoResp
    /\ committed = <<>>
    /\ lastGranted = <<>>
    /\ attemptBit = FALSE
    /\ firstDone = FALSE

\* Any setting may be empty; index.html is the scaffold's.
Init == Start(SUBSET Settings, {File(ScaffoldTemplate)}, {"unset", "positive"})

\* `last` describes one exchange, in the state right after its handler
\* replied; the client takes it (Deliver) before the process's next step.
Quiet == last = NoResp
Running == alive /\ phase = "serving" /\ Quiet

\* The clock advances.
Tick ==
    /\ alive /\ Quiet /\ phase # "load"
    /\ now < MaxTime
    /\ now' = now + 1
    /\ UNCHANGED <<config, boot, sub, page, phase, alive, goVars, nodeVars, pending, last, hist>>

\* loadConfig() / the validation at the top of server.ts: every required
\* setting is tested, and a non-zero exit code ends the process before
\* anything else is started.
LoadConfig ==
    /\ alive /\ Quiet /\ phase = "load"
    /\ exitCode' = ExitCode(missing)
    /\ phase' = IF ExitCode(missing) # 0 THEN "exited" ELSE "boot"
    /\ alive' = (ExitCode(missing) = 0)
    /\ UNCHANGED <<config, missing, port, sub, page, now, goVars, nodeVars, pending, last, hist>>

\* --------------------------------------------------- Go: main, loginToAPI
\* main: go loginToAPI(conn), then router.Run.  loginToAPI starts the
\* subscriber (go handleWorkflowEvents), creates the ticker and is about to
\* call performLogin.  When router.Run cannot listen on the port it returns
\* an error and log.Fatalf ends the process.
GoMain ==
    /\ flavor = "go" /\ alive /\ Quiet /\ phase = "boot"
    /\ goPc' = "start"
    /\ sub' = [sub EXCEPT !.pc = "waiting"]
    /\ IF PortListens(port)
       THEN phase' = "serving" /\ UNCHANGED <<alive, exitCode>>
       ELSE phase' = "exited" /\ alive' = FALSE /\ exitCode' = 1
    /\ UNCHANGED <<config, missing, port, page, now, AuthToken, ScailoAPICtx, mu, goWord,
                   loginResp, tickPending, nodeVars, pending, last, hist>>

\* time.NewTicker(loginInterval) delivers a tick; a tick that finds the
\* channel full is dropped by the runtime.
GoTicker ==
    /\ flavor = "go" /\ Running
    /\ ~tickPending
    /\ tickPending' = TRUE
    /\ UNCHANGED <<config, boot, sub, page, phase, alive, now, AuthToken, ScailoAPICtx, mu, goPc,
                   goWord, loginResp, nodeVars, pending, last, hist>>

\* performLogin is entered: the immediate call of loginToAPI, or the loop
\* `for range ticker.C` taking a tick.  LoginAsEmployeePrimary is sent with
\* context.Background().
GoPerformLoginCall ==
    /\ flavor = "go" /\ Running
    /\ \/ goPc = "start" /\ UNCHANGED tickPending
       \/ goPc = "wait" /\ tickPending /\ tickPending' = FALSE
    /\ goPc' = "rpc"
    /\ attemptBit' = ~attemptBit
    /\ UNCHANGED <<config, boot, sub, page, phase, alive, now, AuthToken, ScailoAPICtx, mu,
                   goWord, loginResp, nodeVars, pending, last, committed,
                   lastGranted, firstDone>>

\* The login call answers with a token.
GoLoginOk ==
    /\ flavor = "go" /\ Running /\ goPc = "rpc"
    /\ \E tok \in Tokens : loginResp' = tok /\ lastGranted' = tok
    /\ goPc' = "ctx1"
    /\ UNCHANGED <<config, boot, sub, page, phase, alive, now, AuthToken, ScailoAPICtx, mu,
                   goWord, tickPending, nodeVars, pending, last, committed,
                   attemptBit, firstDone>>

\* The login call answers with an error: panic(err) in a goroutine with no
\* recover ends the process.
GoLoginErr ==
    /\ flavor = "go" /\ Running /\ goPc = "rpc"
    /\ alive' = FALSE
    /\ goPc' = "dead"
    /\ firstDone' = TRUE
    /\ UNCHANGED <<config, boot, sub, page, phase, now, AuthToken, ScailoAPICtx, mu, goWord,
                   loginResp, tickPending, nodeVars, pending, last, committed,
                   lastGranted, attemptBit>>

\* ScailoAPICtx = metadata.NewOutgoingContext(ctx, md): two word stores, in the
\* order the compiler chose, with mu not held.
GoStoreCtxFirst ==
    /\ flavor = "go" /\ Running /\ goPc = "ctx1"
    /\ \E w \in {"typ", "md"} :
         /\ ScailoAPICtx' = [ScailoAPICtx EXCEPT ![w] = NewOutgoingContext(loginResp)[w]]
         /\ goWord' = w
    /\ goPc' = "ctx2"
    /\ UNCHANGED <<config, boot, sub, page, phase, alive, now, AuthToken, mu, loginResp,
                   tickPending, nodeVars, pending, last, hist>>

GoStoreCtxSecond ==
    /\ flavor = "go" /\ Running /\ goPc = "ctx2"
    /\ ScailoAPICtx' = NewOutgoingContext(loginResp)
    /\ goWord' = "none"
    /\ goPc' = "lock"
    /\ UNCHANGED <<config, boot, sub, page, phase, alive, now, AuthToken, mu, loginResp,
                   tickPending, nodeVars, pending, last, hist>>

\* mu.Lock()
GoLock ==
    /\ flavor = "go" /\ Running /\ goPc = "lock"
    /\ ~mu.writer /\ mu.readers = 0
    /\ mu' = [mu EXCEPT !.writer = TRUE]
    /\ goPc' = "tok1"
    /\ UNCHANGED <<config, boot, sub, page, phase, alive, now, AuthToken, ScailoAPICtx, goWord,
                   loginResp, tickPending, nodeVars, pending, last, hist>>

\* AuthToken = loginResp.AuthToken: two word stores.
GoStoreTokenFirst ==
    /\ flavor = "go" /\ Running /\ goPc = "tok1"
    /\ \E w \in {"data", "len"} :
         /\ AuthToken' = [AuthToken EXCEPT ![w] = MkStr(loginResp)[w]]
         /\ goWord' = w
    /\ goPc' = "tok2"
    /\ UNCHANGED <<config, boot, sub, page, phase, alive, now, ScailoAPICtx, mu, loginResp,
                   tickPending, nodeVars, pending, last, hist>>

\* A login that stores its token only while none is stored yet.
GoStoredTokenOnce(resp, old) == IF old = <<>> THEN resp ELSE old
\* What performLogin leaves in AuthToken once both words are written.
GoStoredToken(resp, old) == resp
GoStoreTokenSecond ==
    /\ flavor = "go" /\ Running /\ goPc = "tok2"
    /\ AuthToken' = MkStr(GoStoredToken(loginResp, committed))
    /\ committed' = GoStoredToken(loginResp, committed)
    /\ goWord' = "none"
    /\ goPc' = "unlock"
    /\ UNCHANGED <<config, boot, sub, page, phase, alive, now, ScailoAPICtx, mu, loginResp,
                   tickPending, nodeVars, pending, last, lastGranted, attemptBit,
                   firstDone>>

\* mu.Unlock(), the log line, and back to the ticker loop.
GoUnlock ==
    /\ flavor = "go" /\ Running /\ goPc = "unlock"
    /\ mu' = [mu EXCEPT !.writer = FALSE]
    /\ goPc' = "wait"
    /\ firstDone' = TRUE
    /\ UNCHANGED <<config, boot, sub, page, phase, alive, now, AuthToken, ScailoAPICtx, goWord,
                   loginResp, tickPending, nodeVars, pending, last, committed,
                   lastGranted, attemptBit>>

GoRefreshing == goPc \in {"ctx1", "ctx2", "lock", "tok1", "tok2", "unlock"}

\* ------------------------------------------------------ Node: loginToAPI
\* loginToAPI(): the login call is sent (its promise is not awaited), and the
\* finally block arms one timer for the next call.
NodeInc(n) == IF n < MaxInflight THEN n + 1 ELSE MaxInflight

\* A loginToAPI that arms a timer in its finally block and another one after it.
NodeArmedTwice(n) == n + 2
\* finally { setTimeout(() => { loginToAPI() }, 3600 * 1000) }: every call of
\* loginToAPI arms one timer, however its login call goes.
NodeArmed(n) == n + 1

\* What a read of index.html that returned content leaves in the history.
Loaded == IF loaded < MaxReads THEN loaded + 1 ELSE MaxReads

\* The rest of the script: let indexPage = fs.readFileSync(...) (an exception
\* here ends the process before anything is started), the routes, and the
\* last lines: setupWorkflowEventsCapture(); loginToAPI(); server.listen(...).
\* When listen cannot take the port its promise rejects, and nothing handles
\* the rejection: the process ends, the subscriber and the login started.
NodeMain ==
    /\ flavor = "node" /\ alive /\ Quiet /\ phase = "boot"
    /\ IF ~indexFile.exists
       THEN /\ alive' = FALSE
            /\ phase' = "exited"
            /\ UNCHANGED <<sub, nodeRpc, nodeTimers, attemptBit, indexPage, loaded, exitCode>>
       ELSE /\ sub' = [sub EXCEPT !.pc = "waiting"]
            /\ nodeRpc' = NodeInc(nodeRpc)
            /\ nodeTimers' = NodeArmed(nodeTimers)
            /\ attemptBit' = ~attemptBit
            /\ indexPage' = indexFile.content
            /\ loaded' = Loaded
            /\ IF PortListens(port)
               THEN phase' = "serving" /\ UNCHANGED <<alive, exitCode>>
               ELSE phase' = "exited" /\ alive' = FALSE /\ exitCode' = 1
    /\ UNCHANGED <<config, missing, port, indexFile, frac, view, now, goVars, nodeOlder, pending,
                   last, committed, lastGranted, firstDone>>

\* The timer fires and its callback calls loginToAPI() again.
NodeTimerFires ==
    /\ flavor = "node" /\ Running
    /\ nodeTimers > 0
    /\ nodeRpc' = NodeInc(nodeRpc)
    /\ nodeTimers' = NodeArmed(nodeTimers - 1)
    /\ attemptBit' = ~attemptBit
    /\ UNCHANGED <<config, boot, sub, page, phase, alive, now, goVars, nodeOlder, pending, last,
                   committed, lastGranted, firstDone>>

\* The login calls awaiting their response, in the order they were sent
\* (1 is the oldest); the upstream answers them in any order.
NodeInFlight == 1..nodeRpc

\* .then(response => { authToken = response.authToken })
NodeStoredToken(resp, old) == resp
\* The i-th oldest call is answered with a token: the calls sent before it
\* are the ones older than the token now stored.
NodeLoginOk ==
    /\ flavor = "node" /\ Running
    /\ nodeRpc > 0
    /\ nodeRpc' = nodeRpc - 1
    /\ \E i \in NodeInFlight : nodeOlder' = i - 1
    /\ \E tok \in Tokens :
         /\ AuthToken' = MkStr(NodeStoredToken(tok, committed))
         /\ committed' = NodeStoredToken(tok, committed)
         /\ lastGranted' = tok
    /\ firstDone' = TRUE
    /\ UNCHANGED <<config, boot, sub, page, phase, alive, now, ScailoAPICtx, mu, goPc, goWord,
                   loginResp, tickPending, nodeTimers, pending, last, attemptBit>>

\* The promise rejects.  It has no rejection handler (the try/catch around an
\* un-awaited call catches nothing): the runtime either only warns or, by its
\* default since Node 15, ends the process with an uncaught exception.
NodeLoginErr ==
    /\ flavor = "node" /\ Running
    /\ nodeRpc > 0
    /\ nodeRpc' = nodeRpc - 1
    /\ \E i \in NodeInFlight : nodeOlder' = IF i <= nodeOlder THEN nodeOlder - 1 ELSE nodeOlder
    /\ \E dies \in BOOLEAN : alive' = ~dies
    /\ firstDone' = TRUE
    /\ UNCHANGED <<config, boot, sub, page, phase, now, goVars, nodeTimers, pending, last, committed,
                   lastGranted, attemptBit>>

\* ------------------------------------------------------- ingress handler
\* c.SetCookie(name, value, maxAge, "/", "", false, true), as net/http writes
\* it: Max-Age=<n> for n > 0, Max-Age=0 for n < 0, no Max-Age attribute for 0.
GoSetCookie(value, maxAge) ==
    [value |-> value, hasMaxAge |-> maxAge # 0,
     maxAge |-> IF maxAge > 0 THEN maxAge ELSE 0,
     hasExpires |-> FALSE, expires |-> 0, path |-> "/", httpOnly |-> TRUE]

\* reply.setCookie(name, value, {path: "/", signed: true, expires}).
NodeSetCookie(value, expires) ==
    [value |-> NodeSign(CookieSignatureSecret, value), hasMaxAge |-> FALSE, maxAge |-> 0,
     hasExpires |-> TRUE, expires |-> expires, path |-> "/", httpOnly |-> FALSE]

\* The path parameter :token, as the handler receives it.
IngressTokens == {<<>>} \cup Tokens

\* What a handler's unlocked read of shared state was concurrent with.
ReadFacts(seen) ==
    [readShared |-> TRUE, readLocked |-> mu.readers > 0, refreshing |-> GoRefreshing,
     svcSeen |-> seen, svcOld |-> committed,
     svcNew |-> IF GoRefreshing THEN loginResp ELSE committed]

Reply(route, input, status, location) ==
    [NoResp EXCEPT !.route = route, !.input = input, !.status = status,
                   !.location = location, !.at = now]

WithFacts(r, f) ==
    [r EXCEPT !.readShared = f.readShared, !.readLocked = f.readLocked,
              !.refreshing = f.refreshing, !.svcSeen = f.svcSeen,
              !.svcOld = f.svcOld, !.svcNew = f.svcNew]

WithCookie(r, c) == [r EXCEPT !.setCookie = TRUE, !.cookie = c]

\* securecookie.Encode, SetCookie and Redirect at the end of the Go handler.
GoIngressFinish(r, value, maxAge) ==
    LET enc == GoEncode(CookieSignatureSecret, now, value)
    IN  IF ~enc.ok THEN [r EXCEPT !.status = 500]
        ELSE WithCookie([r EXCEPT !.status = 307, !.location = "ui"],
                        GoSetCookie(enc.value, maxAge))

\* The development bypass is taken on every request.
DevBypassAlways == TRUE
\* if !production / if (!production): the development bypass.
DevBypass == ~production

\* router.GET("<prefix>/ingress/:token", ...): gin's :token matches a
\* non-empty path segment only, so <prefix>/ingress/ matches no route and is
\* answered by router.NoRoute.
GoRoute(token) == IF token = <<>> THEN "noRoute" ELSE "ingress"
\* router.NoRoute: c.Redirect(http.StatusTemporaryRedirect, uiPath1)
GoNoRoute(input) == Reply("noRoute", input, 307, "ui")

\* The handler answers 307 although VerifyEnclaveIngress failed.
GoIngressVerifyErrIgnored(r) == [r EXCEPT !.status = 307, !.location = "ui"]
\* if err != nil { c.JSON(http.StatusInternalServerError, ...); return }
GoIngressVerifyErr(r) == [r EXCEPT !.status = 500, !.body = "error"]
\* catch (e) { reply.code(500).send(e) }
NodeIngressCatch(r) == [r EXCEPT !.status = 500, !.body = "error"]

\* The Go ingress handler up to its reply or its VerifyEnclaveIngress call.
\* `fault` is whether reading a torn AuthToken past its array faults.
GoIngress ==
    /\ flavor = "go" /\ Running
    /\ \E token \in IngressTokens, fault \in BOOLEAN :
         IF GoRoute(token) = "noRoute"
         THEN /\ ~fault
              /\ last' = GoNoRoute("emptyToken")
              /\ UNCHANGED pending
         ELSE IF DevBypass
         THEN /\ fault => AuthToken.len > Len(AuthToken.data)
              /\ StrNilFault(AuthToken) => fault
              /\ last' = LET r == WithFacts(Reply("ingress", "dev", 0, "none"),
                                            ReadFacts(StrBytes(AuthToken)))
                         IN  IF fault THEN [r EXCEPT !.status = 500]
                             ELSE GoIngressFinish(r, StrBytes(AuthToken), DevExpiry)
              /\ UNCHANGED pending
         ELSE /\ ~fault
              /\ IF token = <<>>
                 THEN /\ last' = [Reply("ingress", "emptyToken", 400, "none")
                                     EXCEPT !.body = "error"]
                      /\ UNCHANGED pending
                 ELSE IF ~CtxUsable(ScailoAPICtx)
                 THEN /\ last' = WithFacts(Reply("ingress", "token", 500, "none"),
                                           ReadFacts(ScailoAPICtx.md))
                      /\ UNCHANGED pending
                 ELSE /\ ~pending.active
                      /\ pending' = [active |-> TRUE, token |-> token,
                                     auth |-> ScailoAPICtx.md,
                                     facts |-> ReadFacts(ScailoAPICtx.md)]
                      /\ UNCHANGED last
    /\ UNCHANGED <<config, boot, sub, page, phase, alive, now, goVars, nodeVars, hist>>

\* A handler that verifies the ingress token twice.
VerifyCallTwice(p) ==
    <<[rpc |-> "VerifyEnclaveIngress", via |-> "service", tok |-> p.auth],
      [rpc |-> "VerifyEnclaveIngress", via |-> "service", tok |-> p.auth]>>
\* The upstream calls of one ingress request: one VerifyEnclaveIngress.
VerifyCall(p) == <<[rpc |-> "VerifyEnclaveIngress", via |-> "service", tok |-> p.auth]>>

\* expiresIn = int(ingress.ExpiresAt) - int(time.Now().Unix())
GoExpiresIn(expiresAt, t) == expiresAt - t

\* VerifyEnclaveIngress answers; the Go handler finishes.
GoIngressReply ==
    /\ flavor = "go" /\ Running /\ pending.active
    /\ \E ok \in BOOLEAN, session \in Tokens, expiresAt \in ExpiryTimes :
         LET r0 == [WithFacts(Reply("ingress", "token", 0, "none"), pending.facts)
                        EXCEPT !.calls = VerifyCall(pending), !.handlerRan = TRUE]
         IN  last' = IF ~ok THEN GoIngressVerifyErr(r0)
                     ELSE GoIngressFinish([r0 EXCEPT !.upSession = session,
                                                     !.upExpires = expiresAt],
                                          session, GoExpiresIn(expiresAt, now))
    /\ pending' = NoReq
    /\ UNCHANGED <<config, boot, sub, page, phase, alive, now, goVars, nodeVars, hist>>

\* appendDefaultHeader({authTokenToAdd}): a falsy argument (undefined, null,
\* "") is replaced by the service-level authToken.
AppendDefaultHeader(arg) ==
    IF arg = <<>> THEN [via |-> "default", tok |-> StrBytes(AuthToken)]
    ELSE [via |-> "argument", tok |-> arg]

\* The header builder stores its argument as the service-level token.
AppendDefaultHeaderStoresArgument(arg) == MkStr(arg)
\* appendDefaultHeader assigns to its own parameter only (authTokenToAdd =
\* authToken): the module's authToken is after the call what it was before.
AppendDefaultHeaderStores(arg) == AuthToken

\* new Date(Date.now() + 3600 * 1000)
NodeDevExpires(t) == t + DevExpiry

\* The Node ingress handler up to its reply or its verifyEnclaveIngress call.
NodeIngress ==
    /\ flavor = "node" /\ Running
    /\ \E token \in IngressTokens :
         IF DevBypass
         THEN /\ last' = WithCookie(
                   WithFacts(Reply("ingress", "dev", 302, "ui"),
                             ReadFacts(StrBytes(AuthToken))),
                   NodeSetCookie(StrBytes(AuthToken), NodeDevExpires(now)))
              /\ UNCHANGED pending
         ELSE IF token = <<>>
         THEN /\ last' = [Reply("ingress", "emptyToken", 400, "none")
                             EXCEPT !.body = "error"]
              /\ UNCHANGED pending
         ELSE /\ ~pending.active
              /\ pending' = [active |-> TRUE, token |-> token,
                             auth |-> AppendDefaultHeader(StrBytes(AuthToken)).tok,
                             facts |-> ReadFacts(StrBytes(AuthToken))]
              /\ UNCHANGED last
    /\ UNCHANGED <<config, boot, sub, page, phase, alive, now, goVars, nodeVars, hist>>

\* new Date(parseInt(ingress.expiresAt.toString()) * 1000)
NodeProdExpires(expiresAt) == expiresAt

\* verifyEnclaveIngress answers; the Node handler finishes (catch: 500).
NodeIngressReply ==
    /\ flavor = "node" /\ Running /\ pending.active
    /\ \E ok \in BOOLEAN, session \in Tokens, expiresAt \in ExpiryTimes :
         LET r0 == [WithFacts(Reply("ingress", "token", 0, "none"), pending.facts)
                        EXCEPT !.calls = VerifyCall(pending), !.handlerRan = TRUE]
         IN  last' = IF ~ok THEN NodeIngressCatch(r0)
                     ELSE WithCookie([r0 EXCEPT !.status = 302, !.location = "ui",
                                                !.upSession = session,
                                                !.upExpires = expiresAt],
                                     NodeSetCookie(session, NodeProdExpires(expiresAt)))
    /\ pending' = NoReq
    /\ UNCHANGED <<config, boot, sub, page, phase, alive, now, goVars, nodeVars, hist>>

Ingress == GoIngress \/ GoIngressReply \/ NodeIngress \/ NodeIngressReply

\* ------------------------------------------------------ protected routes
\* The cookies a client may present at time t, each with how it was made:
\* none, an empty value, a value this server's codec signed (for a token or
\* for ""), one signed with another secret, and a signed one with one symbol
\* replaced.
Sign(f, k, t, v) == IF f = "go" THEN GoEncode(k, t, v).value ELSE NodeSign(k, v)
FlipSyms == {1, Sym.dot, Sym.bar, MacSym(CookieSignatureSecret, 1)}
Flips(c) == {[c EXCEPT ![i] = b] : i \in 1..Len(c), b \in FlipSyms} \ {c}
PresentedCookies(f, t) ==
    {[kind |-> "absent", present |-> FALSE, c |-> <<>>],
     [kind |-> "empty", present |-> TRUE, c |-> <<>>]}
    \cup {[kind |-> "signed", present |-> TRUE,
           c |-> Sign(f, CookieSignatureSecret, t0, v)] : t0 \in 1..t, v \in Tokens}
    \cup {[kind |-> "signedEmpty", present |-> TRUE,
           c |-> Sign(f, CookieSignatureSecret, t, <<>>)]}
    \cup {[kind |-> "otherSecret", present |-> TRUE,
           c |-> Sign(f, CookieSignatureSecret + 1, t, v)] : v \in Tokens}
    \cup {[kind |-> "flipped", present |-> TRUE, c |-> x] :
               x \in Flips(Sign(f, CookieSignatureSecret, t, Token(MaxTokLen)))}

FilterCall(rpc, hdr) == [rpc |-> rpc, via |-> hdr.via, tok |-> hdr.tok]

\* AuthMiddleware: c.Cookie, cookieCoder.Decode (its error dropped), the
\* authToken == "" test, c.Set and c.Next.
GoAuthToken(in, t) == GoDecode(CookieSignatureSecret, t, in.c).value
\* A middleware that lets every request through.
GoAuthMiddlewareOpen(in, t) == [pass |-> TRUE, tok |-> GoAuthToken(in, t)]
\* A middleware that only tests for the cookie, not for the decoded token.
GoAuthMiddlewareAnyCookie(in, t) == [pass |-> in.present, tok |-> GoAuthToken(in, t)]
GoAuthMiddleware(in, t) ==
    IF ~in.present THEN [pass |-> FALSE, tok |-> <<>>]
    ELSE IF GoAuthToken(in, t) = <<>> THEN [pass |-> FALSE, tok |-> <<>>]
    ELSE [pass |-> TRUE, tok |-> GoAuthToken(in, t)]

\* AuthMiddleware on every cookie a client may present at time t.
GoGuarded == [t \in Times |->
                {[kind |-> in.kind, g |-> GoAuthMiddleware(in, t)] :
                    in \in PresentedCookies("go", t)}]

\* authToken, exists := c.Get(cookieAuthTokenName) in the handler: the token
\* is in the request context when AuthMiddleware did c.Set before c.Next.
GoContextToken(g) == [exists |-> g.pass, tok |-> g.tok]

\* The reply of /protected/api/random behind AuthMiddleware, for a cookie of
\* the given kind that the middleware treated as g; `up` is how the upstream
\* answers the two Filter calls.
GoProtectedReply(kind, g, up) ==
    LET r   == [Reply("protected", kind, 401, "none") EXCEPT !.body = "error"]
        hdr == [via |-> "argument", tok |-> g.tok]
        po  == FilterCall("PurchasesOrders.Filter", hdr)
        ve  == FilterCall("Vendors.Filter", hdr)
    IN  IF ~g.pass THEN r
        ELSE IF ~GoContextToken(g).exists THEN [r EXCEPT !.handlerRan = TRUE]
        ELSE [r EXCEPT !.handlerRan = TRUE, !.tokOk = TRUE, !.tok = g.tok,
                       !.calls = IF up = "ordersErr" THEN <<po>> ELSE <<po, ve>>,
                       !.upErr = (up # "ok"),
                       !.body = IF up = "ok" THEN "random" ELSE "error",
                       !.status = IF up = "ok" THEN 200 ELSE 500]

\* A request for the Go protected route with any cookie a client may present.
GoProtected ==
    /\ flavor = "go" /\ Running
    /\ \E in \in GoGuarded[now], up \in {"ok", "ordersErr", "vendorsErr"} :
         /\ ~in.g.pass => up = "ok"
         /\ last' = GoProtectedReply(in.kind, in.g, up)
    /\ UNCHANGED <<config, boot, sub, page, phase, alive, now, goVars, nodeVars, pending, hist>>

\* handleProtectedRoute: neither redirect is followed by a return, so the
\* code after it still runs.  unsignCookie(undefined) throws (caught: 500 on a
\* reply already sent, which is dropped); an invalid cookie unsigns to null.
NodeGuard(in) ==
    LET u == NodeUnsign(CookieSignatureSecret, in.c)
        userAuthToken == IF u.ok THEN u.value ELSE <<>>
    IN  [redirected |-> ~in.present \/ in.c = <<>> \/ userAuthToken = <<>>,
         threw      |-> ~in.present,
         tokOk      |-> in.present /\ userAuthToken # <<>>,
         tok        |-> userAuthToken]
\* Whether handleProtectedRoute goes on to call handler(userAuthToken).
NodeCallsHandler(g) == ~g.threw

\* handleProtectedRoute's guard on every cookie a client may present at time t.
NodeGuarded == [t \in Times |->
                  {[kind |-> in.kind, g |-> NodeGuard(in)] :
                      in \in PresentedCookies("node", t)}]

\* The reply of the Node /protected/api/random for a cookie of the given
\* kind that handleProtectedRoute treated as g.  The handler's promise is not
\* awaited: when a Filter call fails nothing replies.
NodeProtectedReply(kind, g, up) ==
    LET r   == [Reply("protected", kind, IF g.redirected THEN 302 ELSE 0,
                      IF g.redirected THEN "ui" ELSE "none")
                   EXCEPT !.tokOk = g.tokOk, !.tok = g.tok]
        hdr == AppendDefaultHeader(g.tok)
        cs  == <<FilterCall("PurchasesOrders.Filter", hdr),
                 FilterCall("Vendors.Filter", hdr)>>
    IN  IF ~NodeCallsHandler(g) THEN r
        ELSE [r EXCEPT !.handlerRan = TRUE, !.calls = cs,
                       !.upErr = (up = "err"),
                       !.body = IF ~g.redirected /\ up = "ok" THEN "random" ELSE @,
                       !.status = IF ~g.redirected /\ up = "ok" THEN 200 ELSE @]

\* A request for the Node protected route with any cookie a client may
\* present.  The rejection of a failed Filter call is unhandled (`dies`: the
\* runtime ends the process).
NodeProtected ==
    /\ flavor = "node" /\ Running
    /\ \E in \in NodeGuarded[now], up \in {"ok", "err"}, dies \in BOOLEAN :
         /\ ~NodeCallsHandler(in.g) => up = "ok"
         /\ dies => NodeCallsHandler(in.g) /\ up = "err"
         /\ alive' = ~dies
         /\ AuthToken' = IF NodeCallsHandler(in.g) THEN AppendDefaultHeaderStores(in.g.tok)
                         ELSE AuthToken
         /\ last' = NodeProtectedReply(in.kind, in.g, up)
    /\ UNCHANGED <<config, boot, sub, page, phase, now, ScailoAPICtx, mu, goPc, goWord,
                   loginResp, tickPending, nodeVars, pending, hist>>

Protected == GoProtected \/ NodeProtected

\* ------------------------------------------------------------ page routes
\* The wall clock with its sub-second part.
Clock == [sec |-> now, frac |-> frac]

\* The clock advances within the second.
SubTick ==
    /\ alive /\ Quiet /\ phase = "serving"
    /\ frac < MaxFrac
    /\ frac' = frac + 1
    /\ UNCHANGED <<config, boot, sub, indexFile, indexPage, view, loaded,
                   phase, alive, now, goVars, nodeVars, pending, last, hist>>

\* Somebody edits, empties, removes or restores index.html.
FileEdit ==
    /\ alive /\ Quiet /\ phase = "serving"
    /\ \E f \in Files : f # indexFile /\ indexFile' = f
    /\ UNCHANGED <<config, boot, sub, indexPage, frac, view, loaded,
                   phase, alive, now, goVars, nodeVars, pending, last, hist>>

\* A page reply: the template rendered at the time of the request.
PageView(path, tpl, read) ==
    [path |-> path, status |-> 200, location |-> "none", read |-> read,
     tpl |-> tpl, t |-> Clock, html |-> ReplaceBundleCaches(flavor, tpl, Clock)]
ErrorView(path) == [NoView EXCEPT !.path = path, !.status = 500, !.read = TRUE]
RedirectView(path, status, to) ==
    [NoView EXCEPT !.path = path, !.status = status, !.location = to]

\* A renderer that keeps the page it rendered as its template: a tag that got
\* its ?v= value is no longer one of the three target strings.
CachedAfterRenderKeepsPage(tpl, html) ==
    [i \in DOMAIN html |-> IF html[i].v # NoVersion THEN "text" ELSE html[i].el]
\* pageWithCache := replaceBundleCaches(indexPage) /
\* reply.send(replaceBundleCaches(indexPage)): the rendered page goes to the
\* reply only, indexPage is what it was before the rendering.
CachedAfterRender(tpl, html) == tpl

\* if !production || indexPage == "": whether indexHandler reads the file.
GoReadsIndex == ~production \/ indexPage = <<>>
\* if (!production): whether a Node page route reads the file.
NodeReadsIndex == ~production

\* indexHandler, on <prefix>/ui and <prefix>/ui/*path.
GoIndexHandler ==
    /\ flavor = "go" /\ Running
    /\ \E path \in {"ui", "uiPath"} :
         IF GoReadsIndex /\ ~indexFile.exists
         THEN /\ view' = ErrorView(path)
              /\ UNCHANGED <<indexPage, loaded>>
         ELSE IF GoReadsIndex
         THEN /\ indexPage' = CachedAfterRender(indexFile.content,
                                                PageView(path, indexFile.content, TRUE).html)
              /\ loaded' = Loaded
              /\ view' = PageView(path, indexFile.content, TRUE)
         ELSE /\ indexPage' = CachedAfterRender(indexPage,
                                                PageView(path, indexPage, FALSE).html)
              /\ view' = PageView(path, indexPage, FALSE)
              /\ UNCHANGED loaded
    /\ UNCHANGED <<config, boot, sub, indexFile, frac, phase, alive, now, goVars,
                   nodeVars, pending, last, hist>>

\* The three Node page routes: "/*" (every GET path no other route matches),
\* <prefix>/ui and <prefix>/ui/*.  readFileSync throwing makes the async
\* handler reject, which Fastify answers with 500.
NodeIndexHandler ==
    /\ flavor = "node" /\ Running
    /\ \E path \in {"ui", "uiPath", "unmatched"} :
         IF NodeReadsIndex /\ ~indexFile.exists
         THEN /\ view' = ErrorView(path)
              /\ UNCHANGED <<indexPage, loaded>>
         ELSE IF NodeReadsIndex
         THEN /\ indexPage' = CachedAfterRender(indexFile.content,
                                                PageView(path, indexFile.content, TRUE).html)
              /\ loaded' = Loaded
              /\ view' = PageView(path, indexFile.content, TRUE)
         ELSE /\ indexPage' = CachedAfterRender(indexPage,
                                                PageView(path, indexPage, FALSE).html)
              /\ view' = PageView(path, indexPage, FALSE)
              /\ UNCHANGED loaded
    /\ UNCHANGED <<config, boot, sub, indexFile, frac, phase, alive, now, goVars,
                   nodeVars, pending, last, hist>>

\* Where each server sends a GET on "/" and (Go) on a path no route matches:
\* router.GET("/") and router.NoRoute redirect to <prefix>/ui with 307;
\* server.get("/") redirects to <prefix>/ui with 302.
RedirectRoutes(f) == IF f = "go" THEN {"root", "unmatched"} ELSE {"root"}
RedirectStatus(f) == IF f = "go" THEN 307 ELSE 302

RedirectHandler ==
    /\ Running
    /\ \E path \in RedirectRoutes(flavor) :
         view' = RedirectView(path, RedirectStatus(flavor), "ui")
    /\ UNCHANGED <<config, boot, sub, indexFile, indexPage, frac, loaded, phase,
                   alive, now, goVars, nodeVars, pending, last, hist>>

Pages == GoIndexHandler \/ NodeIndexHandler \/ RedirectHandler

\* ---------------------------------------------------------- health routes
\* GET <prefix>/health/{startup,liveliness,readiness}: {status: "OK"} with
\* status 200; the handlers read no state of the process.
HealthReply == [Reply("health", "none", 200, "none") EXCEPT !.body = "statusOK"]
\* What a health request sent in this state gets: the handler's reply from a
\* process that is listening, nothing from one that has ended.
HealthAnswer == IF alive /\ phase = "serving" THEN HealthReply ELSE NoResp

Health ==
    /\ Running
    /\ last' = HealthAnswer
    /\ UNCHANGED <<config, boot, sub, page, phase, alive, now, goVars, nodeVars, pending, hist>>

\* ------------------------------------------------------- event subscriber
\* The payloads published on the workflow events channel: one that does not
\* decode (proto.Unmarshal fails / JSON.parse throws), and three that do: an
\* event with an empty rule code and a sales order as its transaction payload
\* ("valid"), one with an empty rule code and a transaction payload that is
\* no sales order ("badNested"), and one with a rule code ("ruleCoded").
Payloads == {"malformed", "valid", "badNested", "ruleCoded"}

\* proto.Unmarshal([]byte(message.Payload), workflowEvent) returns no error.
Decodes(m) == m # "malformed"
\* workflowEvent.RuleCode == ""
RuleCodeEmpty(m) == m \in {"valid", "badNested"}
\* proto.Unmarshal(workflowEvent.TransactionPayload, salesorder) would return
\* no error.
NestedDecodes(m) == m \in {"valid", "ruleCoded"}

\* The transaction payload of every decoded event is decoded.
GoDecodesNestedAlways(m) == TRUE
\* if workflowEvent.RuleCode == "" { ... proto.Unmarshal(TransactionPayload) }
GoDecodesNested(m) == RuleCodeEmpty(m)

\* What one turn of the Go loop did with the transaction payload: nothing
\* ("none"), decoded it ("ok"), or failed to and went on (continue).
GoNested(m) ==
    IF ~Decodes(m) \/ ~GoDecodesNested(m) THEN "none"
    ELSE IF NestedDecodes(m) THEN "ok" ELSE "failed"

\* handleWorkflowEvents: one turn of `for message := range subscription.Channel()`.
\* A payload that does not unmarshal is logged and skipped (continue).
GoSubscriberMessage ==
    /\ flavor = "go" /\ alive /\ sub.pc = "waiting"
    /\ Len(sub.fed) < MaxMsgs
    /\ \E m \in Payloads :
         sub' = [sub EXCEPT !.fed = Append(@, m),
                            !.dispatched = IF Decodes(m) THEN @ + 1 ELSE @,
                            !.nested = GoNested(m)]
    /\ UNCHANGED <<config, boot, page, phase, alive, now, goVars, nodeVars, pending, last, hist>>

\* The listener given to client.subscribe: JSON.parse(incomingMessage) and a
\* log line.  JSON.parse throws on a malformed payload and the listener
\* catches nothing: either the redis client contains the exception, or it is
\* an uncaught exception, which ends the process (`dies`).
NodeSubscriberMessage ==
    /\ flavor = "node" /\ alive /\ sub.pc = "waiting"
    /\ Len(sub.fed) < MaxMsgs
    /\ \E m \in Payloads, dies \in BOOLEAN :
         /\ dies => ~Decodes(m)
         /\ alive' = ~dies
         /\ sub' = [sub EXCEPT !.fed = Append(@, m),
                               !.dispatched = IF Decodes(m) THEN @ + 1 ELSE @,
                               !.pc = IF dies THEN "dead" ELSE @]
    /\ UNCHANGED <<config, boot, page, phase, now, goVars, nodeVars, pending, last, hist>>

Subscriber == GoSubscriberMessage \/ NodeSubscriberMessage

Login ==
    \/ GoMain \/ GoTicker \/ GoPerformLoginCall \/ GoLoginOk \/ GoLoginErr
    \/ GoStoreCtxFirst \/ GoStoreCtxSecond \/ GoLock
    \/ GoStoreTokenFirst \/ GoStoreTokenSecond \/ GoUnlock
    \/ NodeMain \/ NodeTimerFires \/ NodeLoginOk \/ NodeLoginErr

\* The client takes the reply.
Deliver ==
    /\ last # NoResp
    /\ last' = NoResp
    /\ UNCHANGED <<config, boot, sub, page, phase, alive, now, goVars, nodeVars, pending, hist>>

Next == Deliver \/ Tick \/ LoadConfig \/ Login \/ Ingress \/ Protected \/ Health

Spec == Init /\ [][Next]_vars

\* The timer, the process's own steps and the client's taking of a reply are
\* fair; the upstream is not: it may leave a call unanswered.  A step of the
\* process is disabled only while a reply awaits Deliver, so its fairness is
\* stated as strong fairness.
FairSpec ==
    /\ Spec
    /\ WF_vars(Deliver)
    /\ SF_vars(LoadConfig)
    /\ SF_vars(GoMain) /\ SF_vars(GoTicker) /\ SF_vars(GoPerformLoginCall)
    /\ SF_vars(GoStoreCtxFirst) /\ SF_vars(GoStoreCtxSecond) /\ SF_vars(GoLock)
    /\ SF_vars(GoStoreTokenFirst) /\ SF_vars(GoStoreTokenSecond) /\ SF_vars(GoUnlock)
    /\ SF_vars(NodeMain) /\ SF_vars(NodeTimerFires)

\* The process under pub/sub traffic: start-up and the subscriber's loop,
\* with no HTTP request and no login answered meanwhile.
EventNext == LoadConfig \/ GoMain \/ NodeMain \/ Subscriber
EventSpec == Init /\ [][EventNext]_vars

\* SIGTERM or SIGINT arrives.  Neither server installs a signal handler or
\* shuts its listener down: the runtime's default action ends the process at
\* once, whatever its goroutines, timers and requests are doing.
Shutdown ==
    /\ alive /\ phase = "serving"
    /\ alive' = FALSE
    /\ phase' = "killed"
    /\ UNCHANGED <<config, boot, sub, page, now, goVars, nodeVars, pending, last, hist>>

\* The process with a termination signal arriving at any time.
StopNext == Next \/ Shutdown
StopSpec == Init /\ [][StopNext]_vars

\* The process with its handlers and one message on the events channel, the
\* clock standing still.
FrameNext ==
    \/ Deliver \/ LoadConfig \/ Login \/ Ingress \/ Protected \/ Health
    \/ (sub.fed = <<>> /\ Subscriber)
FrameSpec == Init /\ [][FrameNext]_vars

\* The process started with any value of PORT, every other setting present.
PortInit == Start({{}, {"PORT"}}, {File(ScaffoldTemplate)}, PortEnv)
PortSpec == PortInit /\ [][Next]_vars

\* The page routes, with index.html edited between requests; every setting
\* is present, and no login is answered meanwhile.
PageInit == Start({{}}, Files, {"positive"})
PageNext == LoadConfig \/ GoMain \/ NodeMain \/ Tick \/ SubTick \/ FileEdit \/ Pages
PageSpec == PageInit /\ [][PageNext]_vars

\* ------------------------------------------------------------- properties
\* What the client holds for a Set-Cookie received at time t (RFC 6265, 5.3):
\* Max-Age wins over Expires, a Max-Age of 0 expires at the earliest time, and
\* a cookie with neither attribute lasts for the browser session.
CookieExpiry(c, t) ==
    IF c.hasMaxAge THEN [kind |-> "at", t |-> IF c.maxAge <= 0 THEN 0 ELSE t + c.maxAge]
    ELSE IF c.hasExpires THEN [kind |-> "at", t |-> c.expires]
    ELSE [kind |-> "session", t |-> 0]

\* The server's own decoding of a cookie value at time t.
CookieDecode(c, t) ==
    IF flavor = "go" THEN GoDecode(CookieSignatureSecret, t, c)
    ELSE NodeUnsign(CookieSignatureSecret, c)

\* Between the answer of a login call and the end of the store of its token.
GoStoring == goPc \in {"ctx1", "ctx2", "lock", "tok1", "tok2"}

\* ---------------------------------------------------------------- sessions
\* The token the ingress handler signed into the cookie of the reply in
\* `last`: cookieToSet, the service-level token it read (development) or the
\* session token of VerifyEnclaveIngress (production).
IssuedToken == IF production THEN last.upSession ELSE last.svcSeen

\* What a client presents at time t: the cookie of the ingress reply it
\* holds, as received and while the browser keeps it ("issued"), or what it
\* can make without the secret.
ClientMade == {"absent", "empty", "otherSecret", "flipped"}
Unexpired(c, at, t) ==
    LET e == CookieExpiry(c, at) IN e.kind = "session" \/ t < e.t
IssuedCookie == [kind |-> "issued", present |-> TRUE, c |-> last.cookie.value]

\* The client that received a cookie from the Go ingress handler follows the
\* redirect, then or later, and calls the protected route.
GoSession ==
    /\ flavor = "go" /\ alive /\ phase = "serving"
    /\ last.route = "ingress" /\ last.setCookie
    /\ \E t \in now..MaxTime, up \in {"ok", "ordersErr", "vendorsErr"} :
         \E in \in {[kind |-> "issued", g |-> GoAuthMiddleware(IssuedCookie, t)]}
                       \cup {x \in GoGuarded[t] : x.kind \in ClientMade} :
            /\ in.kind = "issued" => Unexpired(last.cookie, last.at, t)
            /\ ~in.g.pass => up = "ok"
            /\ now' = t
            /\ last' = [GoProtectedReply(in.kind, in.g, up)
                            EXCEPT !.at = t, !.issued = IssuedToken]
    /\ UNCHANGED <<config, boot, sub, page, phase, alive, goVars, nodeVars, pending, hist>>

\* The same for the Node server.
NodeSession ==
    /\ flavor = "node" /\ alive /\ phase = "serving"
    /\ last.route = "ingress" /\ last.setCookie
    /\ \E t \in now..MaxTime, up \in {"ok", "err"}, dies \in BOOLEAN :
         \E in \in {[kind |-> "issued", g |-> NodeGuard(IssuedCookie)]}
                       \cup {x \in NodeGuarded[t] : x.kind \in ClientMade} :
            /\ in.kind = "issued" => Unexpired(last.cookie, last.at, t)
            /\ ~NodeCallsHandler(in.g) => up = "ok"
            /\ dies => NodeCallsHandler(in.g) /\ up = "err"
            /\ alive' = ~dies
            /\ AuthToken' = IF NodeCallsHandler(in.g) THEN AppendDefaultHeaderStores(in.g.tok)
                            ELSE AuthToken
            /\ now' = t
            /\ last' = [NodeProtectedReply(in.kind, in.g, up)
                            EXCEPT !.at = t, !.issued = IssuedToken]
    /\ UNCHANGED <<config, boot, sub, page, phase, ScailoAPICtx, mu, goPc, goWord,
                   loginResp, tickPending, nodeVars, pending, hist>>

Session == GoSession \/ NodeSession

\* The process and clients that call the protected route with the cookie
\* they got from the ingress route, or with one of their own making.
SessionNext == Deliver \/ LoadConfig \/ Login \/ Ingress \/ Session
SessionSpec == Init /\ [][SessionNext]_vars

\* C1: a failed login attempt after the first leaves the process running, the
\* stored token as it was, and the next attempt scheduled.
C1_FailedLoginIsSurvived ==
    [][(firstDone /\ (GoLoginErr \/ NodeLoginErr))
          => (alive' /\ AuthToken' = AuthToken
                /\ (flavor = "go" => goPc' = "wait")
                /\ (flavor = "node" => nodeTimers' > 0))]_vars

\* C2: a protected request whose cookie is missing, does not decode or decodes
\* to the empty value is rejected, its handler is not invoked and no upstream
\* call is made for it.
C2_RejectedBeforeHandler ==
    (last.route = "protected"
       /\ last.input \in {"absent", "empty", "signedEmpty", "otherSecret", "flipped"})
      => (~last.handlerRan /\ last.calls = <<>> /\ last.status \in {302, 401})

\* C3: every upstream call of a protected exchange carries the session token
\* decoded from the presented cookie, never the service-level token.
C3_ProtectedCallsCarrySessionToken ==
    last.route = "protected"
      => \A i \in DOMAIN last.calls :
            /\ last.tokOk
            /\ last.calls[i].tok = last.tok
            /\ last.calls[i].via # "default"

\* C4: a handler that reads the service-level token while a refresh is in
\* progress, and gets a value at all (its read does not fault), gets the token
\* stored before the refresh or the token of the refresh.
C4_ReadSeesOldOrNewToken ==
    (last.readShared /\ last.refreshing /\ ~(last.input = "dev" /\ last.status = 500))
      => last.svcSeen \in {last.svcOld, last.svcNew}

\* C5: the token is written only with mu held exclusively, and a Go handler
\* reads the token or the call context only with mu held shared.
C5_TokenAccessUnderLock ==
    flavor = "go"
      => /\ goPc = "tok2" => mu.writer
         /\ last.readShared => last.readLocked

\* C6: while the process runs, login attempts are started again and again:
\* the first at start, then one per tick.
C6_LoginAttemptsRecur ==
    <>(~alive) \/ ([]<>attemptBit /\ []<>(~attemptBit))

C8_ProductionCookieMatchesUpstream ==
    (production /\ last.route = "ingress" /\ last.setCookie)
      => /\ CookieDecode(last.cookie.value, last.at) = [ok |-> TRUE, value |-> last.upSession]
         /\ CookieExpiry(last.cookie, last.at) = [kind |-> "at", t |-> last.upExpires]

\* C9: a cookie signed with another secret, or a signed cookie with one symbol
\* changed, never yields a token: the request is treated as unauthenticated.
C9_TamperedCookieUnauthenticated ==
    (last.route = "protected" /\ last.input \in {"otherSecret", "flipped"})
      => (~last.tokOk /\ ~last.handlerRan /\ last.calls = <<>>)

\* C10: with production = false an ingress request makes no upstream call,
\* sets a cookie for the service-level token current at the request, expiring
\* an hour later, and redirects to <prefix>/ui.
C10_DevIngressIssuesServiceToken ==
    (~production /\ last.route = "ingress")
      => /\ last.calls = <<>>
         /\ last.status \in {302, 307} /\ last.location = "ui"
         /\ last.setCookie
         /\ CookieDecode(last.cookie.value, last.at).ok
         /\ CookieDecode(last.cookie.value, last.at).value \in {last.svcOld, last.svcNew}
         /\ CookieExpiry(last.cookie, last.at) = [kind |-> "at", t |-> last.at + DevExpiry]

\* C11: with production = true every cookie the ingress handler sets comes
\* after a VerifyEnclaveIngress call of the same request that succeeded, and
\* its value is the session token of that call: the bypass is not taken.
C11_ProductionCookieOnlyAfterVerify ==
    (production /\ last.route = "ingress" /\ last.setCookie)
      => /\ last.input = "token"
         /\ Len(last.calls) = 1 /\ last.calls[1].rpc = "VerifyEnclaveIngress"
         /\ last.upSession \in Tokens
         /\ CookieDecode(last.cookie.value, last.at).value = last.upSession

\* C11 witness: a production cookie for a session token that differs from the
\* service-level token the handler used for the call.
C11_Witness ==
    /\ production /\ last.route = "ingress" /\ last.setCookie
    /\ last.calls # <<>> /\ last.calls[1].tok \in Tokens
    /\ last.upSession # last.calls[1].tok

\* Whether the ingress exchange in `last` made a VerifyEnclaveIngress call
\* that the upstream answered with an error.
VerifyRejected == last.route = "ingress" /\ last.calls # <<>> /\ last.upSession = <<>>

\* C12: with production = true, when VerifyEnclaveIngress returns an error the
\* response is a server error, sets no cookie and is no redirect.
C12_RejectedTokenIsServerError ==
    (production /\ VerifyRejected)
      => (last.status = 500 /\ ~last.setCookie /\ last.location = "none")

\* C12 witness: the Go handler answers a rejected ingress token with 500.
C12_Witness ==
    production /\ VerifyRejected /\ last.status = 500 /\ flavor = "go"

\* C13: with production = true a request for <prefix>/ingress/ with an empty
\* token is answered 400, with no upstream call and no cookie.
C13_EmptyTokenIsClientError ==
    (production /\ last.input = "emptyToken")
      => (last.status = 400 /\ last.calls = <<>> /\ ~last.setCookie)

C15_MalformedMessageIsSkipped ==
    (sub.fed \in {<<"malformed">>, <<"malformed", "valid">>})
      => (alive /\ sub.pc = "waiting" /\ sub.dispatched = Len(sub.fed) - 1)

\* C16: when a required setting is empty (the port: zero) after load, the
\* process exits with a non-zero status, and never listens, starts a login or
\* starts the subscriber.
C16_MissingSettingIsFatal ==
    (missing # {} /\ phase # "load")
      => /\ phase = "exited" /\ exitCode # 0 /\ ~alive
         /\ last = NoResp /\ ~pending.active
         /\ goPc = "none" /\ nodeRpc = 0 /\ nodeTimers = 0 /\ attemptBit = FALSE
         /\ sub.pc = "off"

\* C16 witness: the process has exited because only the cookie secret is empty.
C16_Witness ==
    phase = "exited" /\ exitCode = 1 /\ missing = {"COOKIE_SIGNATURE_SECRET"}

\* C17: once the server listens, a health request gets {status: "OK"} whatever
\* the upstream has done: unreachable, a login failed, no token obtained yet.
C17_HealthAlwaysOK ==
    phase = "serving" => HealthAnswer = HealthReply

\* C18: when an upstream call of a protected request fails, the request is
\* answered with a server error and the process keeps running.
C18_UpstreamFailureIsServerError ==
    (last.route = "protected" /\ last.upErr) => (last.status = 500 /\ alive)

\* C19: every cookie the ingress handler sets has path "/", is HTTP-only and,
\* in production, has Max-Age = expiresAt - now, also when that is zero or
\* negative.
C19_CookieAttributes ==
    (last.route = "ingress" /\ last.setCookie)
      => /\ last.cookie.path = "/"
         /\ last.cookie.httpOnly
         /\ production => /\ last.cookie.hasMaxAge
                           /\ last.cookie.maxAge = last.upExpires - last.at

\* C20: a login call or a VerifyEnclaveIngress call that gets no answer is
\* given up after a bounded time: the login goroutine leaves the call, and the
\* ingress request gets its response.
C20_UpstreamCallsAreBounded ==
    /\ (goPc = "rpc") ~> (goPc # "rpc")
    /\ pending.active ~> (~pending.active \/ ~alive)

\* C26: in development every page request reads index.html again; in
\* production the file is read once and that content is used from then on,
\* whatever happens to the file.
C26_TemplateReadPolicy ==
    /\ (~production /\ view.status \in {200, 500}) => view.read
    /\ production => loaded <= 1

\* The timestamps a request can be made at.
ClockValues == [sec : Times, frac : 0..MaxFrac]
\* The positions of a page that carry a cache-busting value, and the page
\* without those values.
Versioned(html) == {i \in DOMAIN html : html[i].v # NoVersion}
Structure(html) == [i \in DOMAIN html |-> [el |-> html[i].el, busted |-> i \in Versioned(html)]]

C28_UnmatchedRedirectsToRoot ==
    /\ view.path = "unmatched" => (view.status \in {302, 307} /\ view.location = "root")
    /\ view.path = "root" => (view.status \in {302, 307} /\ view.location = "ui")
    /\ view.path \in {"ui", "uiPath"} => view.location = "none"

\* C21: when the process is shut down, the requests in flight have been
\* answered before it ends.
C21_ShutdownDrains == phase = "killed" => ~pending.active

\* The ingress exchange in `last` is a request for <prefix>/ingress/<token>,
\* whichever handler answered it.
IngressRequest == last.route = "ingress" \/ last.input = "emptyToken"

\* C22: an ingress request is answered with the redirect to <prefix>/ui
\* exactly when it set a cookie, and an error response sets no cookie.
C22_RedirectIffCookie ==
    IngressRequest
      => /\ (last.status \in {302, 307} /\ last.location = "ui") <=> last.setCookie
         /\ last.status >= 400 => ~last.setCookie

\* C23: the handler of a protected route runs only for a cookie that decodes
\* to a non-empty value, and a missing ingress token or a bad, absent or
\* tampered cookie is answered with a 4xx status.
C23_FailuresAreClientErrors ==
    /\ (last.route = "protected" /\ last.handlerRan) => last.tokOk
    /\ (last.route = "protected"
          /\ last.input \in {"absent", "empty", "signedEmpty", "otherSecret", "flipped"})
         => last.status \in 400..499
    /\ (production /\ last.input = "emptyToken") => last.status \in 400..499

\* C24: an ingress request makes at most one VerifyEnclaveIngress call, and
\* once it is answered the server holds nothing of it: the request record is
\* gone and the token is in no variable of the process.
C24_TokenVerifiedOnceNotStored ==
    /\ IngressRequest => Len(last.calls) <= 1
    /\ (last.route = "ingress" /\ last.calls # <<>>) => pending = NoReq
    /\ ~pending.active => pending = NoReq

\* C24 witness: a production request with a token was answered after its one
\* call.
C24_Witness ==
    /\ production /\ last.route = "ingress" /\ last.input = "token"
    /\ Len(last.calls) = 1 /\ last.setCookie /\ pending = NoReq

\* The last message the subscriber took.
LastMessage == sub.fed[Len(sub.fed)]

\* C25: after the Go subscriber took an event that decodes, it is waiting for
\* the next one; it decoded the transaction payload when the rule code is
\* empty (going on when that fails) and left it alone otherwise.
C25_EmptyRuleCodeDecodesNested ==
    (flavor = "go" /\ sub.fed # <<>> /\ Decodes(LastMessage))
      => /\ alive /\ sub.pc = "waiting"
         /\ RuleCodeEmpty(LastMessage)
              => sub.nested = (IF NestedDecodes(LastMessage) THEN "ok" ELSE "failed")
         /\ ~RuleCodeEmpty(LastMessage) => sub.nested = "none"

\* C25 witness: an event with a rule code was skipped after one whose nested
\* payload failed to decode and one whose nested payload decoded.
C25_Witness ==
    /\ flavor = "go" /\ sub.fed = <<"valid", "badNested", "ruleCoded">>
    /\ sub.nested = "none" /\ sub.pc = "waiting" /\ sub.dispatched = 3

\* C29: a step of an HTTP handler or of the subscriber leaves the stored
\* token, the call context and the configuration as they were.
C29_HandlersLeaveTokenAndConfig ==
    [][(Ingress \/ Protected \/ Health \/ Subscriber)
         => /\ AuthToken' = AuthToken
            /\ ScailoAPICtx' = ScailoAPICtx
            /\ UNCHANGED <<config, missing>>]_vars

\* C29 witness: a protected handler ran for a user's token while another
\* token is stored.
C29_Witness ==
    /\ last.route = "protected" /\ last.handlerRan
    /\ StrBytes(AuthToken) # <<>> /\ last.tok # StrBytes(AuthToken)

\* The token the call context carries, "" for the nil context.
CtxToken == IF ScailoAPICtx.typ = "nil" THEN <<>> ELSE ScailoAPICtx.md

\* C30: in the Go server the call context and the stored token carry the same
\* token in every state in which a handler can run.
C30_ContextMatchesToken ==
    (flavor = "go" /\ Running) => CtxToken = StrBytes(AuthToken)

\* C31: no ingress request is served without a service-level token: the
\* VerifyEnclaveIngress call of a production request carries a non-empty
\* service token, and a development request sets no cookie for the empty
\* token.
C31_NoIngressBeforeToken ==
    /\ pending.active => pending.auth # <<>>
    /\ (~production /\ last.route = "ingress" /\ last.setCookie)
         => CookieDecode(last.cookie.value, last.at).value # <<>>

\* C38: for every template and the same version value the Go and the Node
\* substitution rewrite the same occurrences of the three tags.
C38_RenderersEquivalent ==
    view.status = 200
      => Versioned(GoReplaceBundleCaches(view.tpl, view.t))
           = Versioned(NodeReplaceBundleCaches(view.tpl, view.t))

\* C35: the Node server has at most one login timer pending at any time, and
\* exactly one from the first call of loginToAPI on.
C35_OneLoginTimer ==
    flavor = "node"
      => /\ nodeTimers <= 1
         /\ phase = "serving" => nodeTimers = 1

\* C35 witness: a timer is pending after a login was answered while two
\* later login calls are still unanswered.
C35_Witness ==
    flavor = "node" /\ alive /\ firstDone /\ nodeRpc >= 2 /\ nodeTimers = 1

\* C36: a page request leaves in the cache the template as it was read from
\* the file: what this request read when it read the file, what the cache
\* held before otherwise.
C36_RenderingLeavesCache ==
    [][Pages => indexPage' = (IF view'.status = 200 /\ view'.read
                              THEN indexFile.content ELSE indexPage)]_vars

\* C36 witness: a page with cache-busting values was rendered from the cache
\* without reading the file, and the cache is still the template.
C36_Witness ==
    /\ view.status = 200 /\ ~view.read /\ Versioned(view.html) # {}
    /\ indexPage = view.tpl /\ Len(indexPage) = MaxTplLen

\* C39: the Go protected handler runs only with a non-empty token in the
\* request context, and never answers with its own unauthorized reply.
C39_HandlerAlwaysHasToken ==
    (flavor = "go" /\ last.route = "protected" /\ last.handlerRan)
      => (last.tok # <<>> /\ last.status # 401)

\* C39 witness: the Go handler ran with the token of a signed cookie and
\* answered the failure of its upstream call.
C39_Witness ==
    /\ flavor = "go" /\ last.route = "protected" /\ last.handlerRan
    /\ last.tok = Token(1) /\ last.status = 500

\* C34: a login that stores its token was not sent before the login whose
\* token was stored until then.
C34_NoStaleTokenStored ==
    [][(NodeLoginOk \/ GoStoreTokenSecond) => nodeOlder' >= nodeOlder]_vars

\* C37: the server listens only on a port that is a positive number, and a
\* PORT that is unset, zero or no number ends the process at the validation
\* of the settings, before the login or the subscriber is started.
C37_BadPortIsConfigError ==
    /\ phase = "serving" => PortListens(port)
    /\ ((port.nan \/ port.n = 0) /\ phase # "load")
         => /\ phase = "exited" /\ exitCode # 0 /\ ~alive
            /\ goPc = "none" /\ nodeRpc = 0 /\ nodeTimers = 0 /\ sub.pc = "off"

\* C32: the cookie of an ingress reply, presented as received and before it
\* expires, is accepted by the guard of the protected route, and the handler
\* gets the token the ingress handler signed.
C32_IssuedCookieIsAccepted ==
    (last.route = "protected" /\ last.input = "issued")
      => /\ last.tokOk /\ last.handlerRan
         /\ last.tok = last.issued
         /\ last.status \notin {302, 401}

\* C33: the handler of a protected route runs only for a cookie the ingress
\* handler issued, with the token signed into it.
C33_OnlyIssuedTokensPass ==
    (last.route = "protected" /\ last.handlerRan)
      => (last.input = "issued" /\ last.tok = last.issued /\ last.tok # <<>>)

====
